---- MODULE Spec2Model ----
(***************************************************************************)
(* A model of shipstation.py: the order retrieval, pagination and          *)
(* persistent de-duplication pipeline of main(), with the SQLite ledger    *)
(* (seen_orders) and the remote ShipStation API as its environment.        *)
(*                                                                         *)
(* Text that the code transforms (store names, country codes) is a         *)
(* sequence of one-character strings, so that lower(), upper(), strip()    *)
(* and split(",") are computed and not assumed.                            *)
(*                                                                         *)
(* Spec          invocations one after another                             *)
(* SpecConc      two invocations whose steps interleave                    *)
(* SpecFetchFair the fetch step alone, with a fair pagination loop         *)
(* SpecDyn       the fetch step while the remote collection changes        *)
(***************************************************************************)
EXTENDS Integers, Sequences, FiniteSets, TLC

\* ------------------------------------------------------------------ bounds
\* Number of invocations of the program in one behaviour; also the range of
\* datetime.now() as written to first_seen_at.
MaxClock == 2
\* Orders per page of the remote API in the model (the code asks for 500).
PageSize == 2
\* Independently scheduled invocations (processes) sharing the ledger file.
Procs == {1, 2}

\* ------------------------------------------------------------------- text
Uppers == <<"A","B","C","D","E","F","G","H","I","J","K","L","M",
            "N","O","P","Q","R","S","T","U","V","W","X","Y","Z">>
Lowers == <<"a","b","c","d","e","f","g","h","i","j","k","l","m",
            "n","o","p","q","r","s","t","u","v","w","x","y","z">>

LowerChar(c) ==
    IF \E i \in DOMAIN Uppers : Uppers[i] = c
    THEN Lowers[CHOOSE i \in DOMAIN Uppers : Uppers[i] = c]
    ELSE c

UpperChar(c) ==
    IF \E i \in DOMAIN Lowers : Lowers[i] = c
    THEN Uppers[CHOOSE i \in DOMAIN Lowers : Lowers[i] = c]
    ELSE c

\* str.lower() and str.upper()
Lower(s) == [i \in DOMAIN s |-> LowerChar(s[i])]
Upper(s) == [i \in DOMAIN s |-> UpperChar(s[i])]

\* str.strip(): leading and trailing blanks removed
RECURSIVE LStrip(_)
LStrip(s) == IF s # <<>> /\ Head(s) = " " THEN LStrip(Tail(s)) ELSE s

RECURSIVE RStrip(_)
RStrip(s) ==
    IF s # <<>> /\ s[Len(s)] = " " THEN RStrip(SubSeq(s, 1, Len(s) - 1)) ELSE s

Strip(s) == LStrip(RStrip(s))

\* str.split(","): the pieces between the commas, empty pieces kept
RECURSIVE SplitFrom(_, _, _)
SplitFrom(s, i, cur) ==
    IF i > Len(s) THEN <<cur>>
    ELSE IF s[i] = "," THEN <<cur>> \o SplitFrom(s, i + 1, <<>>)
    ELSE SplitFrom(s, i + 1, Append(cur, s[i]))

Split(s) == SplitFrom(s, 1, <<>>)

Range(s) == {s[i] : i \in DOMAIN s}

\* ----------------------------------------------------------------- orders
\* The fields of an order that the program reads.  shipTo may lack "country".
US   == <<"U","S">>
Usl  == <<"u","s">>
CA   == <<"C","A">>

Ord(id, num, cdate, sid, ship, tot) ==
    [orderId |-> id, orderNumber |-> num, createDate |-> cdate,
     orderDate |-> cdate, advancedOptions |-> [storeId |-> sid],
     shipTo |-> ship, orderTotal |-> tot]

O101  == Ord(101, "A-101", 5, 1, [name |-> "Ann", country |-> US], 10)
\* order 101 after it was edited upstream
O101b == Ord(101, "A-101", 5, 1, [name |-> "Ann B", country |-> US], 12)
O102  == Ord(102, "B-102", 5, 2, [name |-> "Bob", country |-> Usl], 20)
O103  == Ord(103, "A-103", 4, 1, [name |-> "Cy", country |-> CA], 30)
O104  == Ord(104, "B-104", 3, 2, [name |-> "Di"], 40)

\* States of the remote order collection at the time of an invocation.
Collections ==
    { {}, {O101, O102, O103}, {O101, O104}, {O101b, O102, O103, O104} }

Acme      == <<"A","c","m","e">>
AcmeUp    == <<"A","C","M","E">>
Widgets   == <<"W","i","d","g","e","t","s">>

\* Store directories the /stores endpoint may answer with, in response order.
Directories ==
    { << [storeId |-> 1, storeName |-> Acme], [storeId |-> 2, storeName |-> Widgets] >>,
      << [storeId |-> 1, storeName |-> Acme], [storeId |-> 2, storeName |-> AcmeUp] >> }

\* ------------------------------------------------------- the remote API
\* dict.get(key, default) on a JSON object
Get(d, k, default) == IF k \in DOMAIN d THEN d[k] ELSE default

\* The orders of a collection that match the storeId parameter (0: no
\* storeId parameter was sent).
Matching(coll, store_id) ==
    {o \in coll : store_id = 0 \/ o.advancedOptions.storeId = store_id}

\* sortBy=CreateDate&sortDir=DESC as the server applies it: newest first,
\* orders of equal creation date by ascending order id.
ServerSorted(S) ==
    LET Above(o) == {q \in S : \/ q.createDate > o.createDate
                               \/ (q.createDate = o.createDate /\ q.orderId < o.orderId)}
    IN [i \in 1..Cardinality(S) |-> CHOOSE o \in S : Cardinality(Above(o)) = i - 1]

Min(a, b) == IF a <= b THEN a ELSE b

\* The body the server answers GET /orders?...&page=<page> with: one page of
\* the sorted result set, its size (total) and its page count (pages).
ServerPage(coll, store_id, page) ==
    LET all == ServerSorted(Matching(coll, store_id))
        n   == Len(all)
    IN [orders |-> SubSeq(all, (page - 1) * PageSize + 1, Min(page * PageSize, n)),
        total  |-> n,
        page   |-> page,
        pages  |-> (n + PageSize - 1) \div PageSize]

\* What urlopen() can do with one request.
Outcomes == {"ok", "http401", "http429", "http500", "urlerror"}

\* The diagnostic api_request prints for a failed request.
Diagnostic(outcome) ==
    CASE outcome = "http401"  -> "Invalid API credentials"
      [] outcome = "http429"  -> "Rate limit exceeded"
      [] outcome = "http500"  -> "HTTP error"
      [] outcome = "urlerror" -> "Unable to connect"
      [] OTHER                -> ""

\* api_request that prints the diagnostic of a failed request and then
\* returns an empty JSON object instead of leaving the process.
ApiRequestSwallow(outcome, body) ==
    [exit |-> FALSE, diag |-> Diagnostic(outcome),
     body |-> IF outcome = "ok" THEN body ELSE <<>>]

\* api_request: one urlopen(), the decoded body on success, else the
\* diagnostic and sys.exit(1).  No second attempt is made.
ApiRequest(outcome, body) ==
    IF outcome = "ok"
    THEN [exit |-> FALSE, diag |-> "", body |-> body]
    ELSE [exit |-> TRUE, diag |-> Diagnostic(outcome), body |-> <<>>]

\* fetch_stores: the dict storeId -> storeName, in insertion order, as a
\* sequence of (storeId, storeName) with one entry per storeId (last wins).
RECURSIVE StoreMapOf(_)
StoreMapOf(stores) ==
    IF stores = <<>> THEN <<>>
    ELSE LET init == StoreMapOf(SubSeq(stores, 1, Len(stores) - 1))
             last == stores[Len(stores)]
         IN IF \E i \in DOMAIN init : init[i].storeId = last.storeId
            THEN [i \in DOMAIN init |->
                     IF init[i].storeId = last.storeId THEN last ELSE init[i]]
            ELSE Append(init, last)

\* ----------------------------------------------------- store resolution
\* name_to_id = {name.lower(): sid for sid, name in store_map.items()}:
\* a later store of the same lower-cased name replaces an earlier one.
NameToIdHas(store_map, name) ==
    \E i \in DOMAIN store_map : Lower(store_map[i].storeName) = name

NameToId(store_map, name) ==
    LET hits == {i \in DOMAIN store_map : Lower(store_map[i].storeName) = name}
        last == CHOOSE i \in hits : \A j \in hits : j <= i
    IN store_map[last].storeId

\* store_names = [s.strip().lower() for s in args.stores.split(",")]
StoreNames(stores_arg) ==
    LET parts == Split(stores_arg)
    IN [i \in DOMAIN parts |-> Lower(Strip(parts[i]))]

\* The loop over store_names: the ids appended to store_ids, in order.
RECURSIVE ResolveIds(_, _)
ResolveIds(store_map, names) ==
    IF names = <<>> THEN <<>>
    ELSE LET rest == ResolveIds(store_map, Tail(names))
         IN IF NameToIdHas(store_map, Head(names))
            THEN <<NameToId(store_map, Head(names))>> \o rest
            ELSE rest

\* The names the loop prints a "Warning: Store ... not found" for, in order.
RECURSIVE ResolveWarnings(_, _)
ResolveWarnings(store_map, names) ==
    IF names = <<>> THEN <<>>
    ELSE LET rest == ResolveWarnings(store_map, Tail(names))
         IN IF NameToIdHas(store_map, Head(names))
            THEN rest
            ELSE <<Head(names)>> \o rest

\* ------------------------------------------------------- filter pipeline
\* orders.sort(key=createDate, reverse=True): stable, equal keys keep their
\* relative order.
SortByCreateDateDesc(orders) ==
    LET Before(j, i) == \/ orders[j].createDate > orders[i].createDate
                        \/ (orders[j].createDate = orders[i].createDate /\ j < i)
        Rank(i) == Cardinality({j \in DOMAIN orders : Before(j, i)}) + 1
    IN [k \in DOMAIN orders |-> orders[CHOOSE i \in DOMAIN orders : Rank(i) = k]]

\* A comparison of the raw country text with the upper-cased filter.
CountryMatchesRaw(order, country_arg) ==
    Get(Get(order, "shipTo", <<>>), "country", <<>>) = Upper(country_arg)

\* order.get("shipTo", {}).get("country", "").upper() == args.country.upper()
CountryMatches(order, country_arg) ==
    Upper(Get(Get(order, "shipTo", <<>>), "country", <<>>)) = Upper(country_arg)

\* The country loop: the matching orders, in the order they were fetched.
RECURSIVE FilterCountry(_, _)
FilterCountry(orders, country_arg) ==
    IF orders = <<>> THEN <<>>
    ELSE LET rest == FilterCountry(Tail(orders), country_arg)
         IN IF CountryMatches(Head(orders), country_arg)
            THEN <<Head(orders)>> \o rest
            ELSE rest

\* new_order_ids built with the membership test the wrong way round.
NewOrderIdsInverted(orders, seen_ids) ==
    {orders[i].orderId : i \in {j \in DOMAIN orders : orders[j].orderId \in seen_ids}}

\* new_order_ids: the ids of the orders that are not in seen_ids.
NewOrderIds(orders, seen_ids) ==
    {orders[i].orderId : i \in {j \in DOMAIN orders : orders[j].orderId \notin seen_ids}}

\* [o for o in orders if o.get("orderId") in new_order_ids]
RECURSIVE OnlyNew(_, _)
OnlyNew(orders, new_order_ids) ==
    IF orders = <<>> THEN <<>>
    ELSE LET rest == OnlyNew(Tail(orders), new_order_ids)
         IN IF Head(orders).orderId \in new_order_ids
            THEN <<Head(orders)>> \o rest
            ELSE rest

\* ------------------------------------------------------------ the ledger
\* order.get("orderId") of an order without that key is None, which SQLite
\* stores as NULL.
NULL == -1

\* The row bound to the INSERT with the order id read from a key the order
\* does not have (None).
RowOfNullKey(order, now) ==
    [order_id      |-> NULL,
     order_number  |-> Get(order, "orderNumber", NULL),
     first_seen_at |-> now,
     order_date    |-> Get(order, "orderDate", NULL),
     store_id      |-> Get(Get(order, "advancedOptions", <<>>), "storeId", NULL),
     customer_name |-> Get(Get(order, "shipTo", <<>>), "name", NULL),
     order_total   |-> Get(order, "orderTotal", 0)]

\* The seven values mark_orders_seen binds to the INSERT for one order.
RowOf(order, now) ==
    [order_id      |-> Get(order, "orderId", NULL),
     order_number  |-> Get(order, "orderNumber", NULL),
     first_seen_at |-> now,
     order_date    |-> Get(order, "orderDate", NULL),
     store_id      |-> Get(Get(order, "advancedOptions", <<>>), "storeId", NULL),
     customer_name |-> Get(Get(order, "shipTo", <<>>), "name", NULL),
     order_total   |-> Get(order, "orderTotal", 0)]

\* The rowid SQLite gives a row inserted with a NULL INTEGER PRIMARY KEY.
NextRowid(table) ==
    IF table = {} THEN 1
    ELSE (CHOOSE m \in {r.order_id : r \in table} :
              \A r \in table : r.order_id <= m) + 1

\* INSERT OR REPLACE: a row of the same order_id is overwritten.
InsertOrReplace(table, row) ==
    IF row.order_id = NULL
    THEN table \cup {[row EXCEPT !.order_id = NextRowid(table)]}
    ELSE {r \in table : r.order_id # row.order_id} \cup {row}

\* INSERT OR IGNORE INTO seen_orders, order_id INTEGER PRIMARY KEY: a row
\* whose order_id is already in the table is skipped.
InsertOrIgnore(table, row) ==
    IF row.order_id = NULL
    THEN table \cup {[row EXCEPT !.order_id = NextRowid(table)]}
    ELSE IF \E r \in table : r.order_id = row.order_id
         THEN table
         ELSE table \cup {row}

\* mark_orders_seen that commits and returns inside the loop, after the
\* first order.
MarkOrdersSeenFirstOnly(table, orders, now) ==
    IF orders = <<>> THEN table
    ELSE InsertOrIgnore(table, RowOf(Head(orders), now))

\* mark_orders_seen without its conn.commit(): closing the connection rolls
\* the inserts back.
MarkOrdersSeenNoCommit(table, orders, now) == table

\* mark_orders_seen: one INSERT OR IGNORE per order, in order, all with the
\* same timestamp, then conn.commit().
RECURSIVE MarkOrdersSeen(_, _, _)
MarkOrdersSeen(table, orders, now) ==
    IF orders = <<>> THEN table
    ELSE MarkOrdersSeen(InsertOrIgnore(table, RowOf(Head(orders), now)),
                        Tail(orders), now)

\* get_seen_order_ids: SELECT order_id FROM seen_orders, as a set.
GetSeenOrderIds(table) == {r.order_id : r \in table}

\* get_db_connection that drops and recreates the table on every open.
GetDbConnectionRecreate(table) == {}

\* get_db_connection: CREATE TABLE IF NOT EXISTS keeps the rows of an
\* existing table; a new file starts with the empty table.
GetDbConnection(table) == table

\* ------------------------------------------------------------ invocations
\* Command lines the program is started with (the parsed args, and whether
\* the credentials are in the environment).  An absent option is <<>>.
BaseArgs ==
    [mode |-> "sync", creds |-> TRUE, slack_env |-> TRUE, stores |-> <<>>,
     country |-> <<>>, new_only |-> FALSE, json |-> FALSE, slack |-> FALSE,
     order |-> ""]

AcmeBogus   == <<"A","c","m","e",","," ","B","o","g","u","s">>
AcmeWidgets == <<"A","c","m","e",",","W","i","d","g","e","t","s">>
AcmeTwice   == <<"A","c","m","e",","," ","a","c","m","e"," ">>
WidgetsAcme == <<"W","i","d","g","e","t","s",",","A","c","m","e">>

ArgChoices ==
    { BaseArgs,
      [BaseArgs EXCEPT !.new_only = TRUE],
      [BaseArgs EXCEPT !.json = TRUE, !.country = Usl],
      [BaseArgs EXCEPT !.json = TRUE, !.new_only = TRUE],
      [BaseArgs EXCEPT !.country = US, !.new_only = TRUE],
      [BaseArgs EXCEPT !.stores = AcmeBogus, !.slack = TRUE],
      [BaseArgs EXCEPT !.stores = AcmeWidgets, !.country = US, !.slack = TRUE],
      [BaseArgs EXCEPT !.stores = AcmeTwice, !.new_only = TRUE],
      [BaseArgs EXCEPT !.stores = WidgetsAcme],
      [BaseArgs EXCEPT !.mode = "list_stores"],
      [BaseArgs EXCEPT !.mode = "order", !.order = "A-101"],
      [BaseArgs EXCEPT !.creds = FALSE],
      [BaseArgs EXCEPT !.slack = TRUE, !.slack_env = FALSE] }

VARIABLES
    ledger,      \* the rows of table seen_orders in the database file
    clock,       \* datetime.now(); one tick per invocation
    server,      \* the remote side: [stores: the directory, orders: the collection]
    run,         \* per process: the program counter and the locals of main()
    lastCommit   \* history: the latest mark_orders_seen call, <<>> before it

vars == <<ledger, clock, server, run, lastCommit>>

\* The locals of main() before the first statement, and the history of one
\* invocation: its requests, its finished fetches, the ledger it started on,
\* the order of its steps (trace), the ledger ids at its snapshot, the inserts
\* of a failed commit, and the order ids the remote collection has held ever
\* since the fetch step began (stable).
IdleRun ==
    [pc |-> "idle", args |-> BaseArgs, store_map |-> <<>>, store_ids |-> <<>>,
     warnings |-> <<>>, fidx |-> 1, page |-> 1, all_orders |-> <<>>,
     orders |-> <<>>, fetched |-> <<>>, seen_ids |-> {}, new_order_ids |-> {},
     emitted |-> <<>>, total |-> 0, new_count |-> 0, slack_count |-> 0,
     exit |-> 0, diag |-> "", requests |-> <<>>, fetches |-> <<>>,
     ledger0 |-> {}, committed |-> FALSE, trace |-> <<>>, snap_ids |-> {},
     inserted |-> 0, stable |-> {}]

Terminal == {"idle", "done", "failed"}

Init ==
    /\ ledger = {}
    /\ clock = 0
    /\ server = [stores |-> <<>>, orders |-> {}]
    /\ run = [p \in Procs |-> IdleRun]
    /\ lastCommit = <<>>

\* sys.exit(1) after a diagnostic
Exit1(r, diag) == [r EXCEPT !.pc = "failed", !.exit = 1, !.diag = diag]

\* Whether the invocation asks the remote side for the store directory.
ReadsStores(a) ==
    a.creds /\ (a.slack => a.slack_env)
            /\ (a.mode = "list_stores" \/ (a.mode = "sync" /\ (a.stores # <<>> \/ a.slack)))

\* A process that has ended keeps nothing of its run.
Exited(r) == IF r.pc \in Terminal THEN IdleRun ELSE r

\* main() from its start to its first remote call, as the record of the new
\* invocation: argument and credential checks and the choice of path.
Begin(a, table) ==
    LET r0 == [IdleRun EXCEPT !.args = a, !.ledger0 = table]
    IN IF ~a.creds THEN Exit1(r0, "API credentials required")
       ELSE IF a.slack /\ ~a.slack_env
            THEN Exit1(r0, "--slack requires SLACK_BOT_TOKEN and SLACK_CHANNEL")
       ELSE IF a.mode = "list_stores" THEN [r0 EXCEPT !.pc = "list_stores"]
       ELSE IF a.mode = "order" THEN [r0 EXCEPT !.pc = "lookup"]
       ELSE IF a.stores # <<>> \/ a.slack THEN [r0 EXCEPT !.pc = "stores"]
       ELSE [r0 EXCEPT !.pc = "fetch"]

\* The start of an invocation when no other invocation is running; the
\* remote side is in some state of its own.
StartRun(p) ==
    /\ \A q \in Procs : run[q].pc \in Terminal
    /\ clock < MaxClock
    /\ \E a \in ArgChoices, coll \in Collections :
       \E dir \in IF ReadsStores(a) THEN Directories ELSE {<<>>} :
        /\ server' = [stores |-> dir, orders |-> coll]
        /\ run' = [q \in Procs |->
                    IF q # p THEN Exited(run[q]) ELSE Begin(a, ledger)]
    /\ clock' = clock + 1
    /\ UNCHANGED <<ledger, lastCommit>>

\* A request as it is logged in the history of the invocation; pages is the
\* page count fetch_orders read from the response (0 for the other requests).
Req(kind, store_id, fidx, page, outcome) ==
    [kind |-> kind, store |-> store_id, fetch |-> fidx, page |-> page,
     outcome |-> outcome, pages |-> 0]

\* --list-stores: fetch_stores, print, return.
ListStores(p) ==
    /\ run[p].pc = "list_stores"
    /\ \E outcome \in Outcomes :
        LET r   == run[p]
            res == ApiRequest(outcome, server.stores)
            r1  == [r EXCEPT !.requests = Append(@, Req("stores", 0, 0, 0, outcome)),
                             !.trace = Append(@, "request")]
        IN run' = [run EXCEPT ![p] =
             IF res.exit THEN Exit1(r1, res.diag)
             ELSE [r1 EXCEPT !.pc = "done", !.store_map = StoreMapOf(res.body)]]
    /\ UNCHANGED <<ledger, clock, server, lastCommit>>

\* The body of GET /orders?orderNumber=<n>.
ServerLookup(coll, number) ==
    LET hits == ServerSorted({o \in coll : o.orderNumber = number})
    IN [orders |-> hits, total |-> Len(hits), page |-> 1,
        pages |-> (Len(hits) + PageSize - 1) \div PageSize]

\* --order: one request; exit 1 when no order has the number.
Lookup(p) ==
    /\ run[p].pc = "lookup"
    /\ \E outcome \in Outcomes :
        LET r     == run[p]
            res   == ApiRequest(outcome, ServerLookup(server.orders, r.args.order))
            found == Get(res.body, "orders", <<>>)
            r1    == [r EXCEPT !.requests = Append(@, Req("order", 0, 0, 0, outcome)),
                               !.trace = Append(@, "request")]
        IN run' = [run EXCEPT ![p] =
             IF res.exit THEN Exit1(r1, res.diag)
             ELSE IF found = <<>> THEN Exit1(r1, "Order not found")
             ELSE [r1 EXCEPT !.pc = "done"]]
    /\ UNCHANGED <<ledger, clock, server, lastCommit>>

\* The resolution of the requested names once the directory is there, and
\* the step to the fetch.
Resolve(r1, smap) ==
    LET names == StoreNames(r1.args.stores)
    IN IF r1.args.stores # <<>>
       THEN [r1 EXCEPT !.pc = "fetch", !.store_map = smap,
                       !.store_ids = ResolveIds(smap, names),
                       !.warnings = ResolveWarnings(smap, names)]
       ELSE [r1 EXCEPT !.pc = "fetch", !.store_map = smap]

\* fetch_stores for --stores or --slack, then the resolution of the
\* requested names to store_ids.
FetchStores(p) ==
    /\ run[p].pc = "stores"
    /\ \E outcome \in Outcomes :
        LET r     == run[p]
            res   == ApiRequest(outcome, server.stores)
            r1    == [r EXCEPT !.requests = Append(@, Req("stores", 0, 0, 0, outcome)),
                               !.trace = Append(@, "request")]
        IN run' = [run EXCEPT ![p] =
             IF res.exit THEN Exit1(r1, res.diag)
             ELSE Resolve(r1, StoreMapOf(res.body))]
    /\ UNCHANGED <<ledger, clock, server, lastCommit>>

\* The storeId parameter of the fetch in progress: none (0) without resolved
\* stores, else the store the loop is at.  fetch_orders tests "if store_id".
CurrentStore(r) ==
    IF Len(r.store_ids) = 0 THEN 0 ELSE r.store_ids[r.fidx]

\* A loop exit that needs the page index to exceed the page count.
PageDonePastEnd(page, pages) == page > pages

\* if page >= pages: break
PageDone(page, pages) == page >= pages

\* The history entry of a finished fetch_orders call: what its last response
\* reported, what it returned and the pages it asked for.
FetchSummary(r, store_id, total, pages, result) ==
    LET mine(q) == q.kind = "orders" /\ q.fetch = r.fidx
        reqs    == SelectSeq(r.requests, mine)
    IN [store |-> store_id, total |-> total, pages |-> pages, result |-> result,
        asked |-> [i \in DOMAIN reqs |-> reqs[i].page]]

\* One iteration of the loop of fetch_orders: a page request, and what
\* main() does when the call returns after its last page (the next store of
\* the multi-store loop, or the sort of the combined orders).
FetchPage(p) ==
    /\ run[p].pc = "fetch"
    /\ \E outcome \in Outcomes :
        LET r      == run[p]
            sid    == CurrentStore(r)
            res    == ApiRequest(outcome, ServerPage(server.orders, sid, r.page))
            got    == Get(res.body, "orders", <<>>)
            total  == Get(res.body, "total", 0)
            pages  == Get(res.body, "pages", 1)
            all    == r.all_orders \o got
            r1     == [r EXCEPT !.requests =
                          Append(@, [Req("orders", sid, r.fidx, r.page, outcome)
                                        EXCEPT !.pages = pages]),
                          !.trace = Append(@, "request")]
            r2     == [r1 EXCEPT !.fetches =
                          Append(@, FetchSummary(r1, sid, total, pages, all))]
        IN run' = [run EXCEPT ![p] =
             IF res.exit THEN Exit1(r1, res.diag)
             ELSE IF ~PageDone(r.page, pages)
                  THEN [r1 EXCEPT !.all_orders = all, !.page = r.page + 1]
             ELSE IF Len(r.store_ids) > 1
                  THEN IF r.fidx < Len(r.store_ids)
                       THEN [r2 EXCEPT !.orders = @ \o all, !.all_orders = <<>>,
                                       !.fidx = r.fidx + 1, !.page = 1]
                       ELSE [r2 EXCEPT !.orders = SortByCreateDateDesc(@ \o all),
                                       !.fetched = SortByCreateDateDesc(r.orders \o all),
                                       !.all_orders = <<>>, !.pc = "filter"]
             ELSE [r2 EXCEPT !.orders = all, !.fetched = all,
                             !.all_orders = <<>>, !.pc = "filter"]]
    /\ UNCHANGED <<ledger, clock, server, lastCommit>>

\* if args.country: keep the orders of that country.
CountryFilter(p) ==
    /\ run[p].pc = "filter"
    /\ LET r == run[p]
       IN run' = [run EXCEPT ![p] =
            IF r.args.country # <<>>
            THEN [r EXCEPT !.orders = FilterCountry(r.orders, r.args.country),
                           !.trace = Append(@, "filter"),
                           !.pc = "snapshot"]
            ELSE [r EXCEPT !.pc = "snapshot"]]
    /\ UNCHANGED <<ledger, clock, server, lastCommit>>

\* The steps the wrong way round: mark_orders_seen on the orders first, then
\* get_seen_order_ids.
SnapshotAfterMark(p) ==
    /\ run[p].pc = "snapshot"
    /\ LET r     == run[p]
           table == MarkOrdersSeen(GetDbConnection(ledger), r.orders, clock)
           seen  == GetSeenOrderIds(table)
           new   == NewOrderIds(r.orders, seen)
       IN /\ ledger' = table
          /\ run' = [run EXCEPT ![p] =
               [r EXCEPT !.seen_ids = seen, !.new_order_ids = new,
                         !.snap_ids = GetSeenOrderIds(ledger),
                         !.trace = @ \o <<"commit", "snapshot">>,
                         !.orders = IF r.args.new_only THEN OnlyNew(r.orders, new)
                                    ELSE r.orders,
                         !.pc = "emit"]]
    /\ UNCHANGED <<clock, server, lastCommit>>

\* get_db_connection, get_seen_order_ids, new_order_ids and the --new-only
\* filter.
Snapshot(p) ==
    /\ run[p].pc = "snapshot"
    /\ LET r     == run[p]
           table == GetDbConnection(ledger)
           seen  == GetSeenOrderIds(table)
           new   == NewOrderIds(r.orders, seen)
       IN /\ ledger' = table
          /\ run' = [run EXCEPT ![p] =
               [r EXCEPT !.seen_ids = seen, !.new_order_ids = new,
                         !.snap_ids = GetSeenOrderIds(ledger),
                         !.trace = Append(@, "snapshot"),
                         !.orders = IF r.args.new_only THEN OnlyNew(r.orders, new)
                                    ELSE r.orders,
                         !.pc = "emit"]]
    /\ UNCHANGED <<clock, server, lastCommit>>

\* The orders as they are handed to the display: each with its is-new flag.
Flagged(orders, new_order_ids) ==
    [i \in DOMAIN orders |->
        [order |-> orders[i], isNew |-> orders[i].orderId \in new_order_ids]]

\* len([o for o in orders if o.get("orderId") in new_order_ids])
NewCount(orders, new_order_ids) ==
    Cardinality({i \in DOMAIN orders : orders[i].orderId \in new_order_ids})

\* The output: the JSON document, or the "Found n order(s)" header, one line
\* per order and one Slack message per order (each send succeeds or not).
\* Without orders the text output ends the run, and nothing is committed.
Emit(p) ==
    /\ run[p].pc = "emit"
    /\ \E sent \in 0..Len(run[p].orders) :
        LET r  == run[p]
            r1 == [r EXCEPT !.total = Len(r.orders),
                            !.trace = Append(@, "emit"),
                            !.emitted = Flagged(r.orders, r.new_order_ids)]
        IN /\ (sent > 0) => (r.args.slack /\ ~r.args.json)
           /\ run' = [run EXCEPT ![p] =
                IF r.args.json THEN [r1 EXCEPT !.pc = "commit"]
                ELSE IF r.orders = <<>>
                     THEN [r1 EXCEPT !.new_count = 0, !.pc = "done"]
                ELSE [r1 EXCEPT !.new_count = NewCount(r.orders, r.new_order_ids),
                                !.slack_count = sent, !.pc = "commit"]]
    /\ UNCHANGED <<ledger, clock, server, lastCommit>>

\* A commit of everything the run fetched.
CommitBatchFetched(r) == r.fetched

\* The argument of the mark_orders_seen call of main: orders, as filtered.
CommitBatch(r) == r.orders

\* A commit that writes the table back from what the invocation read when
\* it started.
CommitStale(p) ==
    /\ run[p].pc = "commit"
    /\ LET r == run[p]
       IN /\ ledger' = MarkOrdersSeen(r.ledger0, CommitBatch(r), clock)
          /\ run' = [run EXCEPT ![p] =
               [r EXCEPT !.pc = "done", !.committed = TRUE,
                         !.trace = Append(@, "commit")]]
          /\ lastCommit' =
               <<[batch |-> CommitBatch(r), fetched |-> r.fetched,
                  country |-> r.args.country,
                  ids |-> GetSeenOrderIds(ledger'),
                  repeat |-> lastCommit # <<>> /\ lastCommit[1].batch = CommitBatch(r)]>>
    /\ UNCHANGED <<clock, server>>

\* mark_orders_seen(conn, orders); conn.close().  The inserts and the commit
\* are one SQLite write transaction: writers are serialised by the database
\* lock, and a writer that waits beyond busy_timeout raises (CommitFail).
Commit(p) ==
    /\ run[p].pc = "commit"
    /\ LET r == run[p]
       IN /\ ledger' = MarkOrdersSeen(ledger, CommitBatch(r), clock)
          /\ run' = [run EXCEPT ![p] =
               [r EXCEPT !.pc = "done", !.committed = TRUE,
                         !.trace = Append(@, "commit")]]
          /\ lastCommit' =
               <<[batch |-> CommitBatch(r), fetched |-> r.fetched,
                  country |-> r.args.country,
                  ids |-> GetSeenOrderIds(ledger'),
                  repeat |-> lastCommit # <<>> /\ lastCommit[1].batch = CommitBatch(r)]>>
    /\ UNCHANGED <<clock, server>>

\* Inserts that are durable one by one: the first k rows stay.
MarkOrdersSeenAutocommit(table, orders, now, k) ==
    MarkOrdersSeen(table, SubSeq(orders, 1, k), now)

\* mark_orders_seen that raises after k of its inserts (k = len(orders): in
\* conn.commit()).  The inserts belong to the transaction the sqlite3 module
\* opened before the first of them; it is never committed, and the rows are
\* gone with the connection.
MarkOrdersSeenFailing(table, orders, now, k) == table

\* The commit step when sqlite3 raises (the database stays locked beyond
\* busy_timeout, an insert fails): nothing catches the exception, the
\* process ends with a traceback and exit status 1.
CommitFail(p) ==
    /\ run[p].pc = "commit"
    /\ LET r == run[p]
       IN \E k \in 0..Len(CommitBatch(r)) :
            /\ ledger' = MarkOrdersSeenFailing(ledger, CommitBatch(r), clock, k)
            /\ run' = [run EXCEPT ![p] =
                 Exit1([r EXCEPT !.inserted = k,
                                 !.trace = Append(@, "commit")],
                       "Traceback: sqlite3 error")]
    /\ UNCHANGED <<clock, server, lastCommit>>

Next ==
    \E p \in Procs :
        \/ StartRun(p)
        \/ ListStores(p)
        \/ Lookup(p)
        \/ FetchStores(p)
        \/ FetchPage(p)
        \/ CountryFilter(p)
        \/ Snapshot(p)
        \/ Emit(p)
        \/ Commit(p)
        \/ CommitFail(p)

Spec == Init /\ [][Next]_vars

\* -------------------------------------------------- overlapping invocations
\* Ledgers that earlier invocations left behind.
InitialLedgers == { {}, MarkOrdersSeen({}, <<O101>>, 0) }

\* The arguments of the overlapping invocations: scheduled sync runs.
ConcArgs ==
    { BaseArgs,
      [BaseArgs EXCEPT !.new_only = TRUE],
      [BaseArgs EXCEPT !.json = TRUE, !.country = Usl] }

InitConc ==
    /\ ledger \in InitialLedgers
    /\ clock = 0
    /\ server = [stores |-> <<>>, orders |-> {}]
    /\ run = [p \in Procs |-> IdleRun]
    /\ lastCommit = <<>>

\* The start of an invocation of its own schedule (cron), whatever the other
\* process is doing; the remote collection may have changed since.
StartConc(p) ==
    /\ run[p].pc \in Terminal
    /\ clock < MaxClock
    /\ \E a \in ConcArgs, coll \in Collections :
        /\ server' = [stores |-> <<>>, orders |-> coll]
        /\ run' = [run EXCEPT ![p] = Begin(a, ledger)]
    /\ clock' = clock + 1
    /\ UNCHANGED <<ledger, lastCommit>>

NextConc ==
    \E p \in Procs :
        \/ StartConc(p)
        \/ FetchPage(p)
        \/ CountryFilter(p)
        \/ Snapshot(p)
        \/ Emit(p)
        \/ Commit(p)
        \/ CommitFail(p)

SpecConc == InitConc /\ [][NextConc]_vars

\* ---------------------------------------------------- the fetch step alone
\* A first invocation as it enters the fetch step: main() up to the
\* fetch_orders calls, with the directory read where the arguments need it.
EnterFetch(a, dir) ==
    LET r0 == [IdleRun EXCEPT !.args = a]
        r1 == [r0 EXCEPT !.requests = <<Req("stores", 0, 0, 0, "ok")>>,
                         !.trace = <<"request">>]
    IN IF ReadsStores(a)
       THEN Resolve(r1, StoreMapOf(ApiRequest("ok", dir).body))
       ELSE [r0 EXCEPT !.pc = "fetch"]

InitFetch ==
    /\ ledger = {}
    /\ clock = 1
    /\ lastCommit = <<>>
    /\ \E p \in Procs, coll \in Collections :
       \E a \in {x \in ArgChoices : x.mode = "sync" /\ x.creds /\ (x.slack => x.slack_env)} :
       \E dir \in IF ReadsStores(a) THEN Directories ELSE {<<>>} :
        /\ server = [stores |-> dir, orders |-> coll]
        /\ run = [q \in Procs |-> IF q = p THEN EnterFetch(a, dir) ELSE IdleRun]

NextFetch == \E p \in Procs : FetchPage(p)

\* The loop of fetch_orders keeps running: an iteration is a blocking urlopen
\* call that returns or raises, and nothing else suspends the process.
SpecFetchFair ==
    InitFetch /\ [][NextFetch]_vars /\ \A p \in Procs : WF_vars(FetchPage(p))

\* ------------------------------------------- a remote collection that moves
\* An order that arrives while a fetch is under way.
O105 == Ord(105, "B-105", 6, 2, [name |-> "Eve", country |-> US], 50)

\* The states the remote collection can move to.
DynCollections == Collections \cup { {O101, O102, O103, O105} }

InitDyn ==
    /\ ledger = {}
    /\ clock = 1
    /\ lastCommit = <<>>
    /\ \E p \in Procs, coll \in Collections :
       \E a \in {x \in ArgChoices : x.mode = "sync" /\ x.creds /\ (x.slack => x.slack_env)} :
       \E dir \in IF ReadsStores(a) THEN Directories ELSE {<<>>} :
        /\ server = [stores |-> dir, orders |-> coll]
        /\ run = [q \in Procs |->
                    IF q = p
                    THEN [EnterFetch(a, dir) EXCEPT !.stable = {o.orderId : o \in coll}]
                    ELSE IdleRun]

\* Orders are created, edited and removed on the remote side between two
\* page requests of a fetch.
ServerChange ==
    /\ \E p \in Procs : run[p].pc = "fetch"
    /\ \E coll \in DynCollections \ {server.orders} :
        /\ server' = [server EXCEPT !.orders = coll]
        /\ run' = [q \in Procs |->
                    IF run[q].pc = "fetch"
                    THEN [run[q] EXCEPT !.stable = @ \cap {o.orderId : o \in coll}]
                    ELSE run[q]]
    /\ UNCHANGED <<ledger, clock, lastCommit>>

NextDyn ==
    \/ ServerChange
    \/ \E p \in Procs : FetchPage(p)

SpecDyn == InitDyn /\ [][NextDyn]_vars

\* ================================================================ claims
IdsOf(orders) == {orders[i].orderId : i \in DOMAIN orders}

\* The output step of the sync path has run and the run's own commit has not.
Emitted(r) ==
    /\ r.args.mode = "sync"
    /\ \/ r.pc = "commit"
       \/ r.pc = "done" /\ ~r.committed

\* C1: a mark_orders_seen call with the batch of the call before it leaves
\* get_seen_order_ids() equal to its value after that first call.
C1_MarkSeenIdempotent ==
    [][\A p \in Procs :
          ( /\ run[p].pc = "commit"
            /\ run'[p].pc = "done"
            /\ lastCommit # <<>>
            /\ lastCommit[1].batch = run[p].orders )
          => GetSeenOrderIds(ledger') = lastCommit[1].ids]_vars

\* A second call with the same, non-empty batch has returned.
C1_Witness ==
    /\ lastCommit # <<>>
    /\ lastCommit[1].repeat
    /\ lastCommit[1].batch # <<>>
    /\ lastCommit[1].ids = GetSeenOrderIds(ledger)

\* C2: every emitted order is flagged new exactly when its orderId is not in
\* the snapshot seen_ids the run took before its commit, and the printed new
\* count is the number of such orders.
C2_PartitionCorrect ==
    \A p \in Procs :
        LET r == run[p]
        IN /\ \A i \in DOMAIN r.emitted :
                r.emitted[i].isNew <=> (r.emitted[i].order.orderId \notin r.seen_ids)
           /\ (r.pc \in {"commit", "done"} /\ r.args.mode = "sync" /\ ~r.args.json)
                => r.new_count =
                     Cardinality({i \in DOMAIN r.emitted :
                                     r.emitted[i].order.orderId \notin r.seen_ids})

\* A run has emitted a new order next to an order that was seen before.
C2_Witness ==
    \E p \in Procs :
        /\ run[p].pc = "commit"
        /\ ~run[p].args.json
        /\ \E i, j \in DOMAIN run[p].emitted :
              run[p].emitted[i].isNew /\ ~run[p].emitted[j].isNew
        /\ run[p].new_count = 1

\* C3 as stated: every finished fetch returns as many orders as the total the
\* server reported and was assembled from the page requests 1..P, P the
\* reported page count.
C3_Original ==
    \A p \in Procs : \A k \in DOMAIN run[p].fetches :
        LET f == run[p].fetches[k]
        IN /\ Len(f.result) = f.total
           /\ f.asked = [i \in 1..f.pages |-> i]

\* C3 amended: every finished fetch returns as many orders as the reported
\* total, from the page requests 1..P in increasing order when P >= 1, and
\* from the single request of page 1 when the server reports no page (P = 0).
C3_PaginationComplete ==
    \A p \in Procs : \A k \in DOMAIN run[p].fetches :
        LET f == run[p].fetches[k]
            P == IF f.pages >= 1 THEN f.pages ELSE 1
        IN /\ Len(f.result) = f.total
           /\ f.asked = [i \in 1..P |-> i]

\* A fetch over more than one page has finished.
C3_Witness ==
    \E p \in Procs : \E k \in DOMAIN run[p].fetches :
        /\ run[p].fetches[k].pages >= 2
        /\ Len(run[p].fetches[k].asked) = run[p].fetches[k].pages
        /\ Len(run[p].fetches[k].result) > PageSize

\* C4 as stated: after a run has committed, a later --new-only run whose
\* fetch returns the same order sequence reports no order.
C4_Original ==
    \A p \in Procs :
        ( /\ Emitted(run[p])
          /\ run[p].args.new_only
          /\ lastCommit # <<>>
          /\ run[p].fetched = lastCommit[1].fetched )
        => run[p].total = 0 /\ run[p].emitted = <<>>

\* C4 amended: after a run has committed, a later --new-only run whose fetch
\* returns the same order sequence and which applies the same country filter
\* (compared without regard to case, or none in both) reports no order.
C4_RerunNothingNew ==
    \A p \in Procs :
        ( /\ Emitted(run[p])
          /\ run[p].args.new_only
          /\ lastCommit # <<>>
          /\ run[p].fetched = lastCommit[1].fetched
          /\ Upper(run[p].args.country) = Upper(lastCommit[1].country) )
        => run[p].total = 0 /\ run[p].emitted = <<>>

\* The scenario: a run displayed and committed 101, 102, 103; the --new-only
\* run after it fetched the same three orders and reports none.
C4_Witness ==
    \E p \in Procs :
        /\ Emitted(run[p])
        /\ run[p].args.new_only
        /\ lastCommit # <<>>
        /\ IdsOf(lastCommit[1].batch) = {101, 102, 103}
        /\ run[p].fetched = lastCommit[1].fetched
        /\ Upper(run[p].args.country) = Upper(lastCommit[1].country)
        /\ Len(run[p].fetched) = 3
        /\ run[p].total = 0

\* C5: a finished run without --new-only that started on ledger ids L and
\* displayed D reports |D| orders, flags exactly the orders whose id is not
\* in L, and leaves the ledger with the ids L \cup ids(D).
C5_FullRunPostState ==
    \A p \in Procs :
        LET r == run[p]
            L == GetSeenOrderIds(r.ledger0)
        IN (r.pc = "done" /\ r.args.mode = "sync" /\ ~r.args.new_only)
           => /\ r.total = Len(r.emitted)
              /\ \A i \in DOMAIN r.emitted :
                    r.emitted[i].isNew <=> (r.emitted[i].order.orderId \notin L)
              /\ GetSeenOrderIds(ledger) =
                    L \cup {r.emitted[i].order.orderId : i \in DOMAIN r.emitted}

\* The scenario: ledger {101}, fetch [101, 104], two orders reported, only
\* 104 new, ledger {101, 104} afterwards.
C5_Witness ==
    \E p \in Procs :
        LET r == run[p]
        IN /\ r.pc = "done" /\ r.committed /\ ~r.args.new_only
           /\ GetSeenOrderIds(r.ledger0) = {101}
           /\ r.total = 2
           /\ [i \in DOMAIN r.emitted |-> r.emitted[i].order.orderId] = <<101, 104>>
           /\ [i \in DOMAIN r.emitted |-> r.emitted[i].isNew] = <<FALSE, TRUE>>
           /\ GetSeenOrderIds(ledger) = {101, 104}

\* C6: no step removes or changes a row of seen_orders, and no two rows have
\* the same order_id: each order id keeps the one record its first insertion
\* wrote, with every attribute of it.
C6_RecordsNeverMutated ==
    [][ /\ \A r \in ledger : r \in ledger'
        /\ \A r1, r2 \in ledger' : r1.order_id = r2.order_id => r1 = r2 ]_vars

\* A later call supplied an order id that was recorded earlier, with other
\* field values, and has returned.
C6_Witness ==
    /\ lastCommit # <<>>
    /\ \E i \in DOMAIN lastCommit[1].batch : \E r \in ledger :
          LET o == lastCommit[1].batch[i]
          IN /\ r.order_id = o.orderId
             /\ r.first_seen_at < clock
             /\ r.order_total # o.orderTotal
             /\ r.customer_name # o.shipTo.name

\* C7: no step takes an order id out of the ledger, and a run flags no order
\* as new whose id was in the ledger when the run started.
C7_LedgerAppendOnly ==
    [][ /\ GetSeenOrderIds(ledger) \subseteq GetSeenOrderIds(ledger')
        /\ \A p \in Procs : \A i \in DOMAIN run'[p].emitted :
              (run'[p].emitted[i].order.orderId \in GetSeenOrderIds(run'[p].ledger0))
              => ~run'[p].emitted[i].isNew ]_vars

\* An order recorded by an earlier run and edited upstream since is emitted
\* as seen by a later run.
C7_Witness ==
    \E p \in Procs : \E i \in DOMAIN run[p].emitted : \E r \in ledger :
        /\ run[p].emitted[i].order = O101b
        /\ ~run[p].emitted[i].isNew
        /\ r.order_id = 101
        /\ r.order_total = O101.orderTotal
        /\ r.first_seen_at < clock

\* C8: a request that fails is the last request of its run; the run has then
\* ended with exit status 1, has emitted and notified nothing and has left the
\* ledger as it found it; and no request of a run is made twice.
C8_FailedCallAborts ==
    \A p \in Procs :
        LET r == run[p]
        IN /\ \A k \in DOMAIN r.requests :
                r.requests[k].outcome # "ok"
                => /\ k = Len(r.requests)
                   /\ r.pc = "failed" /\ r.exit = 1
                   /\ r.emitted = <<>> /\ r.total = 0 /\ r.slack_count = 0
                   /\ ~r.committed
                   /\ ledger = r.ledger0
           /\ \A j, k \in DOMAIN r.requests :
                ( /\ j < k
                  /\ r.requests[j].kind = r.requests[k].kind
                  /\ r.requests[j].fetch = r.requests[k].fetch )
                => r.requests[j].page < r.requests[k].page

\* A request failed after earlier requests of the run had returned orders.
C8_Witness ==
    \E p \in Procs :
        LET r == run[p]
        IN /\ r.pc = "failed"
           /\ Len(r.requests) >= 2
           /\ r.requests[Len(r.requests)].outcome = "http429"
           /\ r.requests[Len(r.requests)].kind = "orders"
           /\ r.requests[Len(r.requests)].page = 2
           /\ r.all_orders # <<>>
           /\ r.ledger0 # {}

\* The requested names of --stores, trimmed.
RequestedNames(stores_arg) ==
    LET parts == Split(stores_arg)
    IN {Strip(parts[i]) : i \in DOMAIN parts}

\* C9 as stated: the resolved ids are exactly the ids of the directory stores
\* whose name equals a requested name without regard to case, and the
\* warnings are exactly the requested names without such a store.
C9_Original ==
    \A p \in Procs :
        LET r     == run[p]
            names == RequestedNames(r.args.stores)
            dir   == r.store_map
        IN ( /\ r.args.mode = "sync" /\ r.args.stores # <<>>
             /\ r.pc \in {"fetch", "filter", "snapshot", "emit", "commit", "done"} )
           => /\ Range(r.store_ids) =
                   {dir[i].storeId : i \in {j \in DOMAIN dir :
                       \E n \in names : Lower(dir[j].storeName) = Lower(n)}}
              /\ Range(r.warnings) =
                   {Lower(n) : n \in {m \in names :
                       \A j \in DOMAIN dir : Lower(dir[j].storeName) # Lower(m)}}

\* C10: with a country filter, the orders after the filter step are the
\* fetched orders whose shipTo country (empty when absent) equals the filter
\* once both are upper-cased, in the order they were fetched.
C10_CountryFilterExact ==
    \A p \in Procs :
        LET r        == run[p]
            keep(o)  == Upper(IF "country" \in DOMAIN o.shipTo
                              THEN o.shipTo.country ELSE <<>>)
                        = Upper(r.args.country)
        IN (r.pc = "snapshot" /\ r.args.country # <<>>)
           => /\ r.orders = SelectSeq(r.fetched, keep)
              /\ \A i \in DOMAIN r.fetched :
                    keep(r.fetched[i]) <=> (r.fetched[i] \in Range(r.orders))

\* The filter "us" kept an order of country "US" and one of country "us" and
\* dropped an order of another country and an order without a country.
C10_Witness ==
    \E p \in Procs :
        /\ run[p].pc = "snapshot"
        /\ run[p].args.country = Usl
        /\ run[p].fetched = <<O101b, O102, O103, O104>>
        /\ run[p].orders = <<O101b, O102>>

\* The fetch step of a sync run is over.
Fetched(r) ==
    r.args.mode = "sync" /\ r.pc \in {"filter", "snapshot", "emit", "commit", "done"}

\* C11 as stated: the per-store fetches of two stores, concatenated and
\* re-sorted by creation date descending, are the sequence a single fetch of
\* the orders of both stores returns, also when orders share a creation date.
C11_Original ==
    \A p \in Procs :
        LET r == run[p]
        IN ( /\ Fetched(r)
             /\ Len(r.store_ids) = 2
             /\ r.store_ids[1] # r.store_ids[2] )
           => r.fetched =
                ServerSorted({o \in server.orders :
                                 o.advancedOptions.storeId \in Range(r.store_ids)})

\* The positions of an event in the step history of a run.
At(r, e) == {i \in DOMAIN r.trace : r.trace[i] = e}

\* C12: a run reads the ledger snapshot once, after its last request and
\* after the country filter and before its output and its commit; the
\* --new-only filter and every is-new flag are taken from that snapshot, which
\* holds the ledger ids of that moment and not the run's own commit.
C12_SnapshotOrdering ==
    \A p \in Procs :
        LET r == run[p]
        IN /\ Cardinality(At(r, "snapshot")) <= 1
           /\ (At(r, "emit") \cup At(r, "commit") # {}) => At(r, "snapshot") # {}
           /\ \A i \in At(r, "snapshot") :
                /\ \A j \in At(r, "request") \cup At(r, "filter") : j < i
                /\ \A j \in At(r, "emit") \cup At(r, "commit") : i < j
                /\ r.seen_ids = r.snap_ids
           /\ \A i \in DOMAIN r.emitted :
                /\ r.emitted[i].isNew <=> (r.emitted[i].order.orderId \notin r.snap_ids)
                /\ r.args.new_only => r.emitted[i].order.orderId \notin r.snap_ids

\* A run with a country filter and --new-only has committed orders that its
\* snapshot, taken after two page requests, did not hold.
C12_Witness ==
    \E p \in Procs :
        LET r == run[p]
        IN /\ r.committed
           /\ r.args.new_only
           /\ r.trace = <<"request", "request", "filter", "snapshot", "emit", "commit">>
           /\ r.snap_ids # {}
           /\ r.emitted # <<>>
           /\ IdsOf(r.orders) \cap r.snap_ids = {}
           /\ IdsOf(r.orders) \subseteq GetSeenOrderIds(ledger)

\* The orders of the output of a run, in output order.
EmittedOrders(r) == [i \in DOMAIN r.emitted |-> r.emitted[i].order]

\* C13: the commit of a run marks precisely the sequence of orders the run
\* emitted, whatever their flags and however many notifications were sent;
\* the ledger gains the ids of that sequence and no id of an order the country
\* filter or the --new-only filter dropped.
C13_CommitCoversDisplayed ==
    \A p \in Procs :
        LET r == run[p]
        IN r.committed =>
             /\ lastCommit # <<>>
             /\ lastCommit[1].batch = EmittedOrders(r)
             /\ GetSeenOrderIds(ledger) =
                  GetSeenOrderIds(r.ledger0) \cup IdsOf(EmittedOrders(r))
             /\ \A o \in Range(r.fetched) :
                  o \notin Range(EmittedOrders(r))
                    => o.orderId \notin
                         GetSeenOrderIds(ledger) \ GetSeenOrderIds(r.ledger0)

\* A run with --slack and a country filter has committed an order it flagged
\* new and one it did not, after fewer notifications than orders went out; the
\* order its filter dropped is not in the ledger.
C13_Witness ==
    \E p \in Procs :
        LET r == run[p]
        IN /\ r.committed
           /\ r.args.slack
           /\ r.slack_count < r.total
           /\ \E i, j \in DOMAIN r.emitted : r.emitted[i].isNew /\ ~r.emitted[j].isNew
           /\ \E o \in Range(r.fetched) :
                /\ o \notin Range(EmittedOrders(r))
                /\ o.orderId \notin GetSeenOrderIds(ledger)

\* The order requests of the f-th fetch_orders call of a run, in order.
FetchRequests(r, f) ==
    LET mine(q) == q.kind = "orders" /\ q.fetch = f
    IN SelectSeq(r.requests, mine)

\* The pages 1..n of the orders of a store, one after the other.
RECURSIVE PagesInOrder(_, _, _)
PagesInOrder(coll, store_id, n) ==
    IF n = 0 THEN <<>>
    ELSE PagesInOrder(coll, store_id, n - 1)
           \o Get(ServerPage(coll, store_id, n), "orders", <<>>)

\* The loop is over for the last request of a fetch: it failed, or its page
\* index reached the page count of its response.
LoopOver(reqs) ==
    reqs # <<>> /\ LET q == reqs[Len(reqs)]
                   IN q.outcome # "ok" \/ q.page >= q.pages

\* The safety half of C14: a fetch_orders call requests the pages 1, 2, 3, ...
\* in turn, goes on exactly while the response succeeded with a page count
\* above the page index, and returns the pages in request order.
C14_StopsAtFirstLastPage ==
    \A p \in Procs :
        LET r == run[p]
        IN \A f \in 1..Len(r.store_ids) + 1 :
             LET reqs == FetchRequests(r, f)
             IN /\ \A i \in DOMAIN reqs :
                     /\ reqs[i].page = i
                     /\ i < Len(reqs) => ~LoopOver(SubSeq(reqs, 1, i))
                /\ (r.pc = "fetch" /\ r.fidx = f)
                     => r.page = Len(reqs) + 1 /\ ~LoopOver(reqs)
                /\ f \in DOMAIN r.fetches
                     => /\ LoopOver(reqs)
                        /\ reqs[Len(reqs)].outcome = "ok"
                        /\ r.fetches[f].result =
                             PagesInOrder(server.orders, r.fetches[f].store, Len(reqs))

\* C14: fetch_orders requests pages 1, 2, 3, ... and stops after the first
\* response whose page count does not exceed the requested page index; a
\* running fetch step always ends, and with successful responses it ends with
\* the accumulated pages returned.
C14_PaginationTerminates ==
    /\ []C14_StopsAtFirstLastPage
    /\ \A p \in Procs :
         (run[p].pc = "fetch") ~> (run[p].pc = "filter" \/ run[p].pc = "failed")

\* A fetch_orders call went on after a first page and returned both pages.
C14_Witness ==
    \E p \in Procs :
        LET r == run[p]
        IN /\ r.pc = "filter"
           /\ Len(r.fetches) = 1
           /\ r.fetches[1].asked = <<1, 2>>
           /\ r.requests[Len(r.requests) - 1].pages = 2
           /\ r.fetches[1].result = <<O101b, O102, O103, O104>>

\* The results of the first n finished fetch_orders calls, one after another.
RECURSIVE ConcatResults(_, _)
ConcatResults(fetches, n) ==
    IF n = 0 THEN <<>> ELSE ConcatResults(fetches, n - 1) \o fetches[n].result

\* C15 as stated: with an empty set of resolved store ids the run makes one
\* fetch without a store filter; with a set of one id, one fetch of that store
\* and no local sort; with a set of several ids, one fetch per id and the
\* concatenation sorted by creation date descending.
C15_Original ==
    \A p \in Procs :
        LET r   == run[p]
            ids == Range(r.store_ids)
            n   == Len(r.fetches)
        IN Fetched(r) =>
             /\ ids = {}
                  => n = 1 /\ r.fetches[1].store = 0 /\ r.fetched = r.fetches[1].result
             /\ Cardinality(ids) = 1
                  => n = 1 /\ r.fetches[1].store \in ids /\ r.fetched = r.fetches[1].result
             /\ Cardinality(ids) > 1
                  => /\ n = Cardinality(ids)
                     /\ {r.fetches[i].store : i \in 1..n} = ids
                     /\ r.fetched = SortByCreateDateDesc(ConcatResults(r.fetches, n))

C17_ConcurrentCommitsKept ==
    \A p, q \in Procs :
        (p # q /\ run[p].committed /\ run[q].committed)
          => /\ \A a, b \in ledger : a.order_id = b.order_id => a = b
             /\ GetSeenOrderIds(ledger) =
                  GetSeenOrderIds(run[p].ledger0) \cup GetSeenOrderIds(run[q].ledger0)
                    \cup IdsOf(EmittedOrders(run[p])) \cup IdsOf(EmittedOrders(run[q]))
             /\ run[p].ledger0 \subseteq ledger
             /\ run[q].ledger0 \subseteq ledger

\* Two invocations that started from the same non-empty ledger and read the
\* same snapshot have both committed: batches that differ, share an order id
\* and carry an edited copy of an order the ledger held.
C17_Witness ==
    \E p, q \in Procs :
        /\ p # q /\ run[p].committed /\ run[q].committed
        /\ run[p].ledger0 = run[q].ledger0 /\ run[p].ledger0 # {}
        /\ run[p].snap_ids = run[q].snap_ids
        /\ IdsOf(run[p].orders) # IdsOf(run[q].orders)
        /\ IdsOf(run[p].orders) \cap IdsOf(run[q].orders) # {}
        /\ \E i \in DOMAIN run[q].orders : run[q].orders[i] = O101b

\* C18 as stated: an order that two invocations both fetched, absent from
\* the ledger both started from, is flagged new by at most one of them (both
\* having completed their commits).
C18_Original ==
    \A p, q \in Procs :
        (p # q /\ run[p].committed /\ run[q].committed)
          => \A i \in DOMAIN run[p].emitted, j \in DOMAIN run[q].emitted :
               LET o == run[p].emitted[i].order.orderId
               IN ( /\ run[q].emitted[j].order.orderId = o
                    /\ o \notin GetSeenOrderIds(run[p].ledger0)
                    /\ o \notin GetSeenOrderIds(run[q].ledger0) )
                  => ~(run[p].emitted[i].isNew /\ run[q].emitted[j].isNew)

\* C19 as stated: when the remote collection gains or loses orders between
\* the page requests of a fetch, the sequence fetch_orders returns holds no
\* order id twice and holds every order that matched the query all through
\* the fetch.
C19_Original ==
    \A p \in Procs :
        LET r == run[p]
        IN \A f \in DOMAIN r.fetches :
             LET result == r.fetches[f].result
             IN /\ \A i, j \in DOMAIN result :
                     result[i].orderId = result[j].orderId => i = j
                /\ \A o \in Matching(server.orders, r.fetches[f].store) :
                     o.orderId \in r.stable => o.orderId \in IdsOf(result)

\* C20 as stated: each distinct resolved store id is fetched exactly once in
\* a run, no order id is displayed twice, and the order count and (in the
\* text output, which reports it) the new count count each order id once.
C20_Original ==
    \A p \in Procs :
        LET r == run[p]
        IN /\ \A i, j \in DOMAIN r.fetches :
                r.fetches[i].store = r.fetches[j].store => i = j
           /\ \A i, j \in DOMAIN r.emitted :
                r.emitted[i].order.orderId = r.emitted[j].order.orderId => i = j
           /\ r.emitted # <<>>
                => /\ r.total = Cardinality(IdsOf(EmittedOrders(r)))
                   /\ ~r.args.json
                        => r.new_count =
                             Cardinality(IdsOf(EmittedOrders(r)) \cap r.new_order_ids)

====
